---- MODULE Spec2Model ----
(***************************************************************************)
(* outdir-tempdir: TempDir (src/src/lib.rs) and Error (src/src/error.rs).  *)
(*                                                                         *)
(* A path is the sequence of its characters, each a one-character string:  *)
(* "a/a" is <<"a", "/", "a">>.  The std::path operations the crate calls   *)
(* (components, push, join, eq, iter) are modelled on those characters,    *)
(* for the Unix and the Windows flavour of std::path.  The filesystem is   *)
(* a set of directories and a set of plain files, each named by the        *)
(* sequence of names leading to it from the filesystem's top.              *)
(***************************************************************************)
EXTENDS Integers, Sequences, FiniteSets, TLC

VARIABLES plat, dirs, files, handles, nCreates, status, last

vars == <<plat, dirs, files, handles, nCreates, status, last>>

\* ------------------------------------------------------------------ bounds

\* Longest raw path drawn for the sanitizer (SanSpec).
MaxLen == 4
\* with_path_safe calls in one run of the lifecycle (Spec).
MaxCreates == 2
\* The mkdir calls of one create_dir_all among which the operating system
\* may refuse one: the first MaxRefused.
MaxRefused == 2

\* ------------------------------------------------------------ characters

Platforms == {"unix", "windows"}

\* One letter stands for every ordinary file-name character.
Letters == {"a"}

Alphabet == Letters \cup {".", "/", "\\", ":"}

\* std::path::is_separator
Seps(p) == IF p = "windows" THEN {"/", "\\"} ELSE {"/"}

\* std::path::MAIN_SEPARATOR
MainSep(p) == IF p = "windows" THEN "\\" ELSE "/"

RECURSIVE StringsUpTo(_)
StringsUpTo(n) ==
    IF n = 0 THEN {<<>>}
    ELSE LET shorter == StringsUpTo(n - 1)
         IN  shorter \cup {Append(s, c) : s \in shorter, c \in Alphabet}

\* ---------------------------------------------------- Path::components

\* The pieces of s between separators ("" pieces included).
RECURSIVE Split(_, _)
Split(s, seps) ==
    IF s = <<>> THEN << <<>> >>
    ELSE LET rest == Split(Tail(s), seps)
         IN  IF Head(s) \in seps
             THEN << <<>> >> \o rest
             ELSE << <<Head(s)>> \o Head(rest) >> \o Tail(rest)

\* Length of a drive prefix ("a:") at the start of s; Windows only.
\* A UNC, verbatim or device prefix begins with a separator: Components
\* reports it as RootDir, which cleansing_path sends down the same arm.
PrefixLen(s, p) ==
    IF p = "windows" /\ Len(s) >= 2 /\ s[1] \in Letters /\ s[2] = ":"
    THEN 2 ELSE 0

Comp(k, n) == [kind |-> k, name |-> n]

\* Path::components(): Prefix?, RootDir?, then one component per non-empty
\* piece; "." is reported (CurDir) only as the first piece of a path with
\* no root, and dropped everywhere else; ".." is ParentDir.
Components(s, p) ==
    LET n      == PrefixLen(s, p)
        rest   == SubSeq(s, n + 1, Len(s))
        root   == rest # <<>> /\ rest[1] \in Seps(p)
        pieces == Split(rest, Seps(p))
        One(i) ==
            LET x == pieces[i]
            IN  IF x = <<>> THEN <<>>
                ELSE IF x = <<".">>
                     THEN IF i = 1 /\ ~root THEN <<Comp("CurDir", x)>> ELSE <<>>
                ELSE IF x = <<".", ".">> THEN <<Comp("ParentDir", x)>>
                ELSE <<Comp("Normal", x)>>
        Body[i \in 0..Len(pieces)] ==
            IF i = 0 THEN <<>> ELSE Body[i - 1] \o One(i)
    IN  (IF n > 0 THEN <<Comp("Prefix", SubSeq(s, 1, n))>> ELSE <<>>)
        \o (IF root THEN <<Comp("RootDir", <<MainSep(p)>>)>> ELSE <<>>)
        \o Body[Len(pieces)]

HasPrefix(s, p) == PrefixLen(s, p) > 0

\* Path::has_root: a separator right after the prefix, if any.
HasRoot(s, p) ==
    Len(s) > PrefixLen(s, p) /\ s[PrefixLen(s, p) + 1] \in Seps(p)

\* Path::is_absolute: a root, and on Windows a prefix as well.
IsAbsolute(s, p) ==
    IF p = "windows" THEN HasPrefix(s, p) /\ HasRoot(s, p) ELSE HasRoot(s, p)

\* PathEq gone wrong: the two paths compared as text.
PathEqText(a, b, p) == a = b

\* PartialEq for Path: equal component sequences.
PathEq(a, b, p) == Components(a, p) = Components(b, p)

\* ------------------------------------------------------- PathBuf::push

\* PathBuf::push(extra) on buf.  A path with a prefix or an absolute path
\* replaces buf; a rooted path keeps only buf's prefix; otherwise extra is
\* appended, after a separator unless buf is empty, ends in one, or is a
\* bare drive prefix.
Push(buf, extra, p) ==
    LET endsSep   == buf # <<>> /\ buf[Len(buf)] \in Seps(p)
        bareDrive == HasPrefix(buf, p) /\ Len(buf) = PrefixLen(buf, p)
        needSep   == buf # <<>> /\ ~endsSep /\ ~bareDrive
    IN  IF IsAbsolute(extra, p) \/ HasPrefix(extra, p) THEN extra
        ELSE IF HasRoot(extra, p)
             THEN SubSeq(buf, 1, PrefixLen(buf, p)) \o extra
        ELSE IF needSep THEN buf \o <<MainSep(p)>> \o extra
        ELSE buf \o extra

\* Path::join
Join(base, extra, p) == Push(base, extra, p)

\* Path::iter().next(): the first component as a path, or <<>> for None
\* (no component is the empty string).
IterFirst(s, p) ==
    IF Components(s, p) = <<>> THEN <<>> ELSE Components(s, p)[1].name

\* ------------------------------------------------------ cleansing_path

Ok(path) == [kind |-> "Ok", path |-> path]
Err(k, path) == [kind |-> k, path |-> path]

\* CleanFrom gone wrong: no arm for ParentDir, ".." is pushed like a name.
RECURSIVE CleanFromParentPushed(_, _, _, _)
CleanFromParentPushed(comps, ret, raw, p) ==
    IF comps = <<>> THEN Ok(ret)
    ELSE LET item == Head(comps)
         IN  CASE item.kind \in {"Normal", "ParentDir"} ->
                     CleanFromParentPushed(Tail(comps), Push(ret, item.name, p), raw, p)
               [] item.kind = "CurDir" ->
                     CleanFromParentPushed(Tail(comps), ret, raw, p)
               [] OTHER -> Err("RootDirContains", raw)

\* CleanFrom gone wrong: Prefix and RootDir are skipped like CurDir.
RECURSIVE CleanFromRootSkipped(_, _, _, _)
CleanFromRootSkipped(comps, ret, raw, p) ==
    IF comps = <<>> THEN Ok(ret)
    ELSE LET item == Head(comps)
         IN  CASE item.kind = "Normal" ->
                     CleanFromRootSkipped(Tail(comps), Push(ret, item.name, p), raw, p)
               [] item.kind = "ParentDir" -> Err("ParentDirContains", raw)
               [] OTHER -> CleanFromRootSkipped(Tail(comps), ret, raw, p)

\* The loop of cleansing_path over the components still to read, ret
\* being the path built so far.
RECURSIVE CleanFrom(_, _, _, _)
CleanFrom(comps, ret, raw, p) ==
    IF comps = <<>> THEN Ok(ret)
    ELSE LET item == Head(comps)
         IN  CASE item.kind = "Normal" ->
                     CleanFrom(Tail(comps), Push(ret, item.name, p), raw, p)
               [] item.kind = "CurDir" ->
                     CleanFrom(Tail(comps), ret, raw, p)
               [] item.kind = "ParentDir" -> Err("ParentDirContains", raw)
               [] OTHER -> Err("RootDirContains", raw)

cleansing_path(raw, p) == CleanFrom(Components(raw, p), <<>>, raw, p)

\* ---------------------------------------------------------- filesystem

\* target_root(): OUT_DIR, fixed when the crate is compiled.
OutDir(p) ==
    IF p = "windows" THEN <<"a", ":", "\\", "p", "\\", "o">>
    ELSE <<"/", "p", "/", "o">>

\* The directory a path with no root is resolved against: the working
\* directory (of the drive, for a drive-relative Windows path).  cargo runs
\* tests in the package directory, above target/.../out.
CurrentDir == << <<"p">> >>

\* Where the operating system finds path s: the names from the top.
Resolve(s, p) ==
    LET comps == Components(s, p)
        Walk[i \in 0..Len(comps)] ==
            IF i = 0 THEN (IF HasRoot(s, p) THEN <<>> ELSE CurrentDir)
            ELSE LET at == Walk[i - 1]
                 IN  CASE comps[i].kind = "Normal" -> Append(at, comps[i].name)
                       [] comps[i].kind = "ParentDir" ->
                             IF at = <<>> THEN at ELSE SubSeq(at, 1, Len(at) - 1)
                       [] OTHER -> at
    IN  Walk[Len(comps)]

Root == Resolve(OutDir("unix"), "unix")

IsPrefixOf(a, b) == Len(a) <= Len(b) /\ SubSeq(b, 1, Len(a)) = a

StrictlyUnder(a, b) == IsPrefixOf(a, b) /\ a # b

\* Directories present before the crate acts: the top, the package
\* directory, OUT_DIR and a sibling of OUT_DIR.
InitialDirs == {<<>>, CurrentDir, Root, Append(CurrentDir, <<"s">>)}

\* A build script may have left a plain file in OUT_DIR.
InitialFiles == {{}, {Append(Root, <<"a">>)}}

\* create_dir_all gone wrong: reports success and makes nothing.
create_dir_all_nothing(d, f, path, failAt) ==
    [ok |-> TRUE, dirs |-> d, at |-> <<>>]

\* create_dir_all gone wrong: a refused mkdir undoes the ones before it.
create_dir_all_rollback(d, f, path, failAt) ==
    LET Pre(k)  == SubSeq(path, 1, k)
        present == {k \in 0..Len(path) : Pre(k) \in d \cup f}
        k0      == CHOOSE k \in present : \A j \in present : j <= k
        missing == Len(path) - k0
        refused == failAt \in 1..missing
    IN  IF Pre(k0) \in f THEN [ok |-> FALSE, dirs |-> d, at |-> Pre(k0)]
        ELSE IF refused THEN [ok |-> FALSE, dirs |-> d, at |-> Pre(k0 + failAt)]
        ELSE [ok   |-> TRUE,
              dirs |-> d \cup {Pre(k) : k \in (k0 + 1)..Len(path)},
              at   |-> <<>>]

\* fs::create_dir_all(path) with directories d and files f.  Nothing is
\* made when the deepest existing ancestor is a plain file (the error is
\* NotADirectory or AlreadyExists); otherwise the missing directories are
\* made from the top down, and the failAt-th mkdir, if any, is the one the
\* operating system refuses (0: none is refused).  at: where it failed.
create_dir_all(d, f, path, failAt) ==
    LET Pre(k)  == SubSeq(path, 1, k)
        present == {k \in 0..Len(path) : Pre(k) \in d \cup f}
        k0      == CHOOSE k \in present : \A j \in present : j <= k
        missing == Len(path) - k0
        refused == failAt \in 1..missing
        made    == IF refused THEN failAt - 1 ELSE missing
    IN  IF Pre(k0) \in f THEN [ok |-> FALSE, dirs |-> d, at |-> Pre(k0)]
        ELSE [ok   |-> ~refused,
              dirs |-> d \cup {Pre(k) : k \in (k0 + 1)..(k0 + made)},
              at   |-> IF refused THEN Pre(k0 + failAt) ELSE <<>>]

\* What fs::remove_dir_all(path) can leave behind.  path must be a
\* directory (else: error, nothing removed).  On success path and all
\* below it are gone.  A removal the operating system refuses part-way has
\* removed some of path's entries, each with all below it, and fails.
remove_dir_all(d, f, path) ==
    LET below   == {x \in d \cup f : StrictlyUnder(path, x)}
        entries == {x \in below : Len(x) = Len(path) + 1}
        Gone(g) == {x \in below : \E e \in g : IsPrefixOf(e, x)}
    IN  IF path \notin d THEN {[ok |-> FALSE, dirs |-> d, files |-> f]}
        ELSE {[ok |-> TRUE, dirs |-> d \ (below \cup {path}), files |-> f \ below]}
             \cup {[ok |-> FALSE, dirs |-> d \ Gone(g), files |-> f \ Gone(g)] :
                       g \in SUBSET entries}

\* ------------------------------------------------------------- TempDir

\* What the last call was and what it returned.  arg: the raw path given
\* to with_path_safe, or the path of the handle acted on.  res: Ok or the
\* Error variant; for a drop Kept, Removed or Panic.  path: the PathBuf in
\* the Error, the new handle's path, or the path drop removes.  at: the
\* directory create_dir_all failed on.
Result(op, id, arg, res, path, at) ==
    [op |-> op, id |-> id, arg |-> arg, res |-> res, path |-> path, at |-> at]

\* TempDir::path
path(self) == self.full

\* TempDir::with_path_safe(raw); failAt is the operating system's choice
\* in create_dir_all.
with_path_safe(raw, failAt) ==
    LET target == cleansing_path(raw, plat)
        target_root == OutDir(plat)
        target_full_path == Join(target_root, target.path, plat)
        made == create_dir_all(dirs, files, Resolve(target_full_path, plat), failAt)
        id == nCreates + 1
    IN  /\ nCreates' = id
        /\ UNCHANGED <<plat, files, status>>
        /\ IF target.kind # "Ok"
           THEN /\ last' = Result("create", id, raw, target.kind, target.path, <<>>)
                /\ UNCHANGED <<dirs, handles>>
           ELSE IF PathEq(target_root, target_full_path, plat)
           THEN /\ last' = Result("create", id, raw, "InvalidPath", raw, <<>>)
                /\ UNCHANGED <<dirs, handles>>
           ELSE /\ dirs' = made.dirs
                /\ IF made.ok
                   THEN /\ handles' = handles @@ (id :>
                               [root   |-> target_root,
                                target |-> target.path,
                                full   |-> target_full_path,
                                autorm |-> FALSE])
                        /\ last' = Result("create", id, raw, "Ok",
                                          path(handles'[id]), <<>>)
                   ELSE /\ handles' = handles
                        /\ last' = Result("create", id, raw, "Io", <<>>, made.at)

\* TempDir::autorm
autorm(id) ==
    /\ handles' = [handles EXCEPT ![id].autorm = TRUE]
    /\ last' = Result("autorm", id, path(handles[id]), "Ok", <<>>, <<>>)
    /\ UNCHANGED <<plat, dirs, files, nCreates, status>>

\* Panic gone wrong: the error of remove_dir_all is dropped.
PanicSwallowed(s) == s

\* The status after a panic: a panic while unwinding aborts the process.
Panic(s) == IF s = "running" THEN "unwinding" ELSE "aborted"

\* Removal gone wrong: autorm is not looked at.
RemovalAlways(self) ==
    LET topdir == IterFirst(self.target, plat)
    IN  IF topdir # <<>> THEN Join(self.root, topdir, plat) ELSE <<>>

\* The path Drop::drop removes, or <<>> when it removes nothing: autorm
\* is off, or target has no first component.
Removal(self) ==
    LET topdir == IterFirst(self.target, plat)
    IN  IF self.autorm /\ topdir # <<>>
        THEN Join(self.root, topdir, plat)
        ELSE <<>>

\* Drop for TempDir; out is what remove_dir_all did.
drop(id, out) ==
    LET self  == handles[id]
        rmdir == Removal(self)
        Rest  == [i \in DOMAIN handles \ {id} |-> handles[i]]
    IN  /\ handles' = Rest
        /\ UNCHANGED <<plat, nCreates>>
        /\ IF rmdir # <<>>
           THEN /\ out \in remove_dir_all(dirs, files, Resolve(rmdir, plat))
                /\ dirs' = out.dirs
                /\ files' = out.files
                /\ status' = IF out.ok THEN status ELSE Panic(status)
                /\ last' = Result("drop", id, path(self),
                                  IF out.ok THEN "Removed" ELSE "Panic", rmdir, <<>>)
           ELSE /\ out = [ok |-> TRUE, dirs |-> dirs, files |-> files]
                /\ UNCHANGED <<dirs, files, status>>
                /\ last' = Result("drop", id, path(self), "Kept", <<>>, <<>>)

\* ------------------------------------------------------ specifications

\* Raw paths the lifecycle is run on.
LifeRaws ==
    { <<>>, <<".">>,
      <<"a">>, <<"a", "a">>, <<"a", "/", "a">>, <<".", "/", "a">>,
      <<"a", "/", "a", "a">>,
      <<".", ".">>, <<"a", "/", ".", ".">>, <<"/", "a">>,
      <<"a", "/", "a", ":", "a">> }

Start ==
    /\ plat \in Platforms
    /\ dirs = InitialDirs
    /\ files \in InitialFiles
    /\ handles = << >>
    /\ nCreates = 0
    /\ status = "running"

Init == Start /\ last = Result("init", 0, <<>>, "", <<>>, <<>>)

\* A caller makes a handle; none is made once a drop has panicked.
Create ==
    /\ status = "running"
    /\ nCreates < MaxCreates
    /\ \E raw \in LifeRaws : \E failAt \in 0..MaxRefused : with_path_safe(raw, failAt)

\* A caller turns auto-removal on.
Autorm ==
    /\ status = "running"
    /\ \E id \in DOMAIN handles : autorm(id)

\* What the operating system can answer to the drop of handle id.
DropOutcomes(id) ==
    {[ok |-> TRUE, dirs |-> dirs, files |-> files]}
    \cup remove_dir_all(dirs, files, Resolve(Removal(handles[id]), plat))

\* A handle goes out of scope, also while a panic unwinds; nothing runs
\* after an abort.
Drop ==
    /\ status # "aborted"
    /\ \E id \in DOMAIN handles : \E out \in DropOutcomes(id) : drop(id, out)

Next == Create \/ Autorm \/ Drop

Spec == Init /\ [][Next]_vars

\* The sanitizer on every raw path of at most MaxLen characters: the
\* initial state holds the input, one step applies cleansing_path or
\* with_path_safe to it.
SanInit ==
    /\ Start
    /\ \E raw \in StringsUpTo(MaxLen) : last = Result("input", 0, raw, "", <<>>, <<>>)

Sanitize ==
    /\ last.op = "input"
    /\ last' = Result("sanitize", 0, last.arg,
                      cleansing_path(last.arg, plat).kind,
                      cleansing_path(last.arg, plat).path, <<>>)
    /\ UNCHANGED <<plat, dirs, files, handles, nCreates, status>>

CreateInput ==
    /\ last.op = "input"
    /\ \E failAt \in 0..MaxRefused : with_path_safe(last.arg, failAt)

SanNext == Sanitize \/ CreateInput

SanSpec == SanInit /\ [][SanNext]_vars

\* ------------------------------------------------------------- claims

Kinds(s, p) == {Components(s, p)[i].kind : i \in 1..Len(Components(s, p))}

\* The raw path begins with a separator or, on Windows, a drive prefix.
HasRootMarker(s, p) ==
    /\ s # <<>>
    /\ \/ s[1] \in Seps(p)
       \/ p = "windows" /\ Len(s) >= 2 /\ s[1] \in Letters /\ s[2] = ":"

FsUnchanged == dirs' = dirs /\ files' = files /\ handles' = handles

\* C2 as stated: every raw path with a ".." component is refused with
\* ParentDirContains carrying the raw path, the filesystem untouched.
C2_ParentAlwaysParentDirContains ==
    [][(last'.op \in {"sanitize", "create"} /\ "ParentDir" \in Kinds(last'.arg, plat))
        => (last'.res = "ParentDirContains" /\ last'.path = last'.arg /\ FsUnchanged)]_vars

\* C2 amended: a raw path with a ".." component is refused, the filesystem
\* untouched and no handle made, with the raw path in the error: the error
\* is ParentDirContains unless the path begins with a root or prefix
\* marker, and RootDirContains if it does.
C2_ParentRefused ==
    [][(last'.op \in {"sanitize", "create"} /\ "ParentDir" \in Kinds(last'.arg, plat))
        => /\ last'.res = (IF HasRootMarker(last'.arg, plat)
                           THEN "RootDirContains" ELSE "ParentDirContains")
           /\ last'.path = last'.arg
           /\ FsUnchanged]_vars

\* C2 witness: with_path_safe refused a path whose ".." follows a normal
\* segment.
C2_Witness ==
    /\ last.op = "create"
    /\ last.res = "ParentDirContains"
    /\ Components(last.arg, plat)[1].kind = "Normal"

\* C3: every raw path that begins with a root or prefix marker is refused
\* with RootDirContains carrying the raw path, whatever follows.
C3_RootRefused ==
    (last.op \in {"sanitize", "create"} /\ HasRootMarker(last.arg, plat))
        => (last.res = "RootDirContains" /\ last.path = last.arg)

\* C3 witness: a Windows drive prefix followed by "..".
C3_Witness ==
    /\ last.op = "sanitize"
    /\ plat = "windows"
    /\ last.arg = <<"a", ":", ".", ".">>
    /\ last.res = "RootDirContains"

\* The names of the Normal components of s, in order.
NormalNames(s, p) ==
    LET Names[i \in 0..Len(Components(s, p))] ==
            IF i = 0 THEN <<>>
            ELSE IF Components(s, p)[i].kind = "Normal"
                 THEN Append(Names[i - 1], Components(s, p)[i].name)
                 ELSE Names[i - 1]
    IN  Names[Len(Components(s, p))]

\* names joined by sep.
RECURSIVE Joined(_, _)
Joined(names, sep) ==
    IF names = <<>> THEN <<>>
    ELSE IF Len(names) = 1 THEN Head(names)
    ELSE Head(names) \o <<sep>> \o Joined(Tail(names), sep)

\* C4: a raw path of normal and "." segments only is accepted, and the
\* result is its normal segments, in order, joined by the separator (the
\* empty path when there is none).
C4_NormalSegmentsKept ==
    (last.op = "sanitize" /\ Kinds(last.arg, plat) \subseteq {"Normal", "CurDir"})
        => /\ last.res = "Ok"
           /\ last.path = Joined(NormalNames(last.arg, plat), MainSep(plat))
           /\ NormalNames(last.path, plat) = NormalNames(last.arg, plat)
           /\ Kinds(last.path, plat) \subseteq {"Normal"}

\* C5: with_path_safe on a raw path with no component but "." is refused
\* with InvalidPath carrying the raw path; no handle, nothing changed.
C5_EmptyTargetRefused ==
    [][(last'.op = "create" /\ Kinds(last'.arg, plat) \subseteq {"CurDir"})
        => (last'.res = "InvalidPath" /\ last'.path = last'.arg /\ FsUnchanged)]_vars

\* C5 witness: "./." was refused.
C5_Witness ==
    /\ last.op = "create"
    /\ last.arg = <<".", "/", ".">>
    /\ last.res = "InvalidPath"

\* Everything the step created or removed.
Changed ==
    (dirs' \ dirs) \cup (dirs \ dirs') \cup (files' \ files) \cup (files \ files')

Ancestors(x) == {SubSeq(x, 1, k) : k \in 0..Len(x)}

\* C1 as stated: OUT_DIR stays a directory, whatever a step creates or
\* removes lies strictly below OUT_DIR, and every live handle's full path
\* is OUT_DIR joined with a non-empty target of normal segments.
C1_SandboxContainment ==
    [][/\ Root \in dirs'
       /\ \A x \in Changed : StrictlyUnder(Root, x)
       /\ \A id \in DOMAIN handles' :
             /\ handles'[id].full = Join(OutDir(plat), handles'[id].target, plat)
             /\ Kinds(handles'[id].target, plat) = {"Normal"}
             /\ StrictlyUnder(Root, Resolve(handles'[id].full, plat))]_vars

\* C6: after a successful with_path_safe the new handle holds the
\* sanitized target, full = OUT_DIR joined with it, autorm off, and path()
\* is full; full and every directory above it exist, and no directory
\* that existed before is gone.  with_path_safe does not fail with Io
\* when full is a directory already.
C6_CreatedDirExists ==
    /\ [][(last'.op = "create" /\ last'.res = "Ok")
        => /\ DOMAIN handles' = DOMAIN handles \cup {last'.id}
           /\ last'.id \notin DOMAIN handles
           /\ LET h == handles'[last'.id]
              IN  /\ h.target = cleansing_path(last'.arg, plat).path
                  /\ h.full = Join(OutDir(plat), h.target, plat)
                  /\ h.autorm = FALSE
                  /\ last'.path = h.full
                  /\ Ancestors(Resolve(h.full, plat)) \subseteq dirs'
           /\ dirs \subseteq dirs'
           /\ files' = files]_vars
    /\ [][(/\ last'.op = "create"
            /\ last'.res \in {"Ok", "Io"}
            /\ Resolve(Join(OutDir(plat), cleansing_path(last'.arg, plat).path, plat),
                       plat) \in dirs)
            => last'.res = "Ok"]_vars

\* C6 witness: with_path_safe succeeded on a path another live handle had
\* already created.
C6_Witness ==
    /\ last.op = "create"
    /\ last.res = "Ok"
    /\ \E i \in DOMAIN handles : i # last.id /\ handles[i].full = handles[last.id].full

\* OUT_DIR joined with the first segment of a handle's target.
TopOf(h) == Append(Root, Components(h.target, plat)[1].name)

\* C7 as stated: when a handle with autorm on is dropped and the removal
\* succeeds, OUT_DIR/<first segment of target> and all below it are gone,
\* and whatever lies elsewhere is as it was.
C7_TopLevelRemoved ==
    [][(last'.op = "drop" /\ last'.res = "Removed")
        => LET top == TopOf(handles[last'.id])
           IN  /\ \A x \in dirs' \cup files' : ~IsPrefixOf(top, x)
               /\ \A x \in dirs : ~IsPrefixOf(top, x) => x \in dirs'
               /\ \A x \in files : ~IsPrefixOf(top, x) => x \in files'
               /\ dirs' \subseteq dirs /\ files' \subseteq files]_vars

\* C8: the drop of a handle whose autorm is off changes nothing on the
\* filesystem and does not panic: the directory it made and all above it
\* are directories afterwards if they were before.
C8_DropWithoutAutormKeeps ==
    [][(last'.op = "drop" /\ ~handles[last'.id].autorm)
        => /\ dirs' = dirs
           /\ files' = files
           /\ status' = status
           /\ last'.res = "Kept"
           /\ (Ancestors(Resolve(handles[last'.id].full, plat)) \subseteq dirs
                 => Ancestors(Resolve(handles[last'.id].full, plat)) \subseteq dirs')]_vars

\* C8 witness: a handle on a nested path was dropped with autorm off and
\* its directory is still there.
C8_Witness ==
    /\ last.op = "drop"
    /\ last.res = "Kept"
    /\ Len(Resolve(last.arg, plat)) > Len(Root) + 1
    /\ Ancestors(Resolve(last.arg, plat)) \subseteq dirs

\* C9: when a handle with autorm on is dropped and the directory to remove
\* is already gone, or is still there afterwards, the drop panics: the
\* status moves to unwinding, or to aborted if it was unwinding.
C9_FailedCleanupPanics ==
    [][(/\ last'.op = "drop"
        /\ handles[last'.id].autorm
        /\ \/ Resolve(last'.path, plat) \notin dirs
           \/ Resolve(last'.path, plat) \in dirs')
        => /\ status' # status
           /\ status' \in {"unwinding", "aborted"}
           /\ last'.res = "Panic"]_vars

\* C9 witness: a drop panicked because an earlier drop had removed the
\* directory.
C9_Witness ==
    /\ last.op = "drop"
    /\ last.res = "Panic"
    /\ status = "unwinding"
    /\ StrictlyUnder(Root, Resolve(last.path, plat))
    /\ Resolve(last.path, plat) \notin dirs \cup files

\* C10: a failed with_path_safe makes no handle.  ParentDirContains,
\* RootDirContains and InvalidPath leave the filesystem as it was.  Io
\* comes from create_dir_all alone: nothing is removed, every directory
\* above the one it failed on exists, and what it made lies above that one.
C10_FailedCreateNoHandle ==
    [][(last'.op = "create" /\ last'.res # "Ok")
        => /\ handles' = handles
           /\ last'.res \in {"ParentDirContains", "RootDirContains", "InvalidPath", "Io"}
           /\ files' = files
           /\ last'.res # "Io" => dirs' = dirs
           /\ last'.res = "Io" =>
                 /\ cleansing_path(last'.arg, plat).kind = "Ok"
                 /\ dirs \subseteq dirs'
                 /\ last'.at \notin dirs'
                 /\ Ancestors(last'.at) \ {last'.at} \subseteq dirs'
                 /\ dirs' \ dirs \subseteq Ancestors(last'.at)]_vars

\* C10 witness: the first with_path_safe failed with Io after making a
\* directory.
C10_Witness ==
    /\ last.op = "create"
    /\ last.res = "Io"
    /\ nCreates = 1
    /\ dirs # InitialDirs

====
